---- MODULE Spec2Model ----
(***************************************************************************)
(* The B2G build action pipeline of scripts/b2g_build.py: the ordered      *)
(* stage catalogue, the stages selected for a run, the stage methods and   *)
(* the working directory they read and write.                              *)
(***************************************************************************)
EXTENDS Integers, Sequences, FiniteSets, TLC

\* ------------------------------------------------------------------ bounds
\* Number of modification times, after the first, a snapshot can have.
MaxMtimes == 2
\* Longest content of the fingerprint file that Init enumerates.
MaxFpLen == 2
\* Number of runs started one after the other in the same working directory.
MaxRuns == 2
\* Longest line, in fragments, of the output of a build command.
MaxLineLen == 3

\* ------------------------------------------------------------- catalogue
\* The catalogue with build ahead of the checkouts of gaia.
all_actions_build_early ==
    << "clobber", "checkout-gecko", "download-gonk", "unpack-gonk",
       "build", "checkout-gaia", "checkout-gaia-l10n", "build-symbols",
       "make-updates", "prep-upload", "upload", "make-update-xml",
       "upload-updates" >>

\* all_actions of B2GBuild.__init__
all_actions ==
    << "clobber", "checkout-gecko", "download-gonk", "unpack-gonk",
       "checkout-gaia", "checkout-gaia-l10n", "build", "build-symbols",
       "make-updates", "prep-upload", "upload", "make-update-xml",
       "upload-updates" >>

\* default_actions of B2GBuild.__init__
default_actions == { "checkout-gecko", "download-gonk", "unpack-gonk", "build" }

AllStages == { all_actions[i] : i \in DOMAIN all_actions }

\* ------------------------------------------------------------ sequences
Last(s) == s[Len(s)]

RECURSIVE Join(_)
\* The string made of the characters of s.
Join(s) == IF s = << >> THEN "" ELSE Head(s) \o Join(Tail(s))

\* ------------------------------------------------------- str() and int()
Digits == << "0", "1", "2", "3", "4", "5", "6", "7", "8", "9" >>

DigitVal(c) == (CHOOSE i \in DOMAIN Digits : Digits[i] = c) - 1

IsDigit(c) == \E i \in DOMAIN Digits : Digits[i] = c

IsSpace(c) == c \in { " ", "\n" }

RECURSIVE StrOfNat(_)
\* str(n) for n >= 0: the decimal digits of n, no leading zero.
StrOfNat(n) ==
    IF n < 10 THEN << Digits[n + 1] >>
    ELSE Append(StrOfNat(n \div 10), Digits[(n % 10) + 1])

RECURSIVE LStrip(_)
LStrip(s) == IF s # << >> /\ IsSpace(Head(s)) THEN LStrip(Tail(s)) ELSE s

RECURSIVE RStrip(_)
RStrip(s) ==
    IF s # << >> /\ IsSpace(Last(s)) THEN RStrip(SubSeq(s, 1, Len(s) - 1)) ELSE s

RECURSIVE DigitsVal(_)
DigitsVal(s) ==
    IF s = << >> THEN 0
    ELSE 10 * DigitsVal(SubSeq(s, 1, Len(s) - 1)) + DigitVal(Last(s))

\* int(s) of Python 2 for a str s, as the set holding its value, or the
\* empty set where int() raises ValueError: surrounding whitespace is
\* ignored, one sign is accepted, at least one digit is required and
\* nothing else is.
IntOfStr(s) ==
    LET t == RStrip(LStrip(s))
        signed == t # << >> /\ Head(t) \in { "+", "-" }
        d == IF signed THEN Tail(t) ELSE t
    IN  IF d = << >> \/ \E i \in DOMAIN d : ~IsDigit(d[i]) THEN { }
        ELSE IF signed /\ Head(t) = "-" THEN { 0 - DigitsVal(d) }
        ELSE { DigitsVal(d) }

\* int(x) for a float x >= 0 kept in half units: truncation.
IntOfRaw(raw) == raw \div 2

\* ------------------------------------------------------------------ state
VARIABLES
    config,        \* self.config and the environment, fixed for the run
    descriptor,    \* content of the product descriptor file (config.json)
    actions,       \* self.actions: the stages selected for the run
    pos,           \* index in all_actions of the stage run() looks at next
    current,       \* the stage whose method is executing, or "none"
    status,        \* "running", "done", "fatal" or "crashed"
    exit_code,     \* completion code of the process, as a set: {} while running
    return_code,   \* self.return_code
    started,       \* the stages whose methods were called, in call order
    calls,         \* collaborator calls (executor, transfer, vcs, ...) in order
    gecko_config,  \* self.gecko_config, as a set: {} is None
    loads,         \* number of times the descriptor file was read
    props,         \* buildbot properties set by the run
    upload_path,   \* destination computed by upload, as a set: {} before
    fs,            \* the working directory
    unpacks,       \* what each call of unpack_gonk in this directory found and did
    inst,          \* the unpack stages of the processes sharing the directory
    run,           \* ordinal of the run in this working directory
    tool,          \* what ./build.sh does in this run: exit status and output
    _config,       \* ParanoidConfig: the stored configuration, a dict
    _configLock,   \* ParanoidConfig: the lock
    exited,        \* exit status of the process using the object, as a set
    held,          \* the configuration when lockConfig was first called, as a set
    called         \* the last call of the object's API and what it gave

vars == << config, descriptor, actions, pos, current, status, exit_code,
           return_code, started, calls, gecko_config, loads, props,
           upload_path, fs, unpacks, inst, run, tool,
           _config, _configLock, exited, held, called >>

\* The ParanoidConfig object of Config.py and the process that uses it.
paranoid == << _config, _configLock, exited, held, called >>

\* What is outside the process of the run.
elsewhere == << tool, paranoid >>

\* What a stage method never assigns.
fixed == << config, descriptor, actions, pos, started, unpacks, inst, run, elsewhere >>

\* ----------------------------------------------------------- run config
\* config['repo'] of B2GBuild.__init__, as its path segments.
default_repo == << "http:", "hg.mozilla.org", "mozilla-central" >>

\* The defaults of B2GBuild.__init__ plus what the command line, the
\* scheduler's properties file and the environment add to them.
\*   buildbot: self.buildbot_config: loaded is "is not None"; properties and
\*     sourcestamp are "key present"; changes is the shape of
\*     sourcestamp['changes']: "absent", "empty", "no_who" or "who".
DefaultConfig ==
    [ target             |-> "device-x",
      repo               |-> default_repo,
      ccache             |-> TRUE,
      enable_try_uploads |-> FALSE,
      upload_remote_basepath |-> "base",
      gonk_snapshot_url  |-> FALSE,   \* 'gonk_snapshot_url' in config
      gaia_languages_file |-> FALSE,
      is_automation      |-> FALSE,
      force_clobber      |-> FALSE,
      is_nightly         |-> FALSE,   \* what query_is_nightly() answers
      update             |-> FALSE,   \* config.get('update') is set
      autopublish        |-> FALSE,   \* config['update'].get('autopublish')
      signing_servers    |-> FALSE,   \* 'MOZ_SIGNING_SERVERS' in os.environ
      buildbot           |-> [ loaded |-> FALSE, properties |-> FALSE,
                               sourcestamp |-> FALSE, changes |-> "absent" ] ]

\* The buildbot configurations a properties file can give.
BuildbotConfigs ==
    { [ loaded |-> l, properties |-> p, sourcestamp |-> s, changes |-> c ] :
        l \in BOOLEAN, p \in BOOLEAN, s \in BOOLEAN,
        c \in { "absent", "empty", "no_who", "who" } }

WellFormedBuildbot(b) ==
    /\ b \in BuildbotConfigs
    /\ ~b.loaded => ~b.properties /\ ~b.sourcestamp
    /\ ~b.sourcestamp => b.changes = "absent"

\* ---------------------------------------------------- product descriptor
DescriptorKeys ==
    { "tooltool_manifest", "gonk_snapshot_url", "gaia", "gaia.l10n",
      "mock_target", "zip_files", "upload_files" }

\* A descriptor file: the keys it has, its config_version (0 when absent)
\* and the files its zip_files and upload_files patterns match. A file is
\* << stem, extension >>.
FullDescriptor ==
    [ keys |-> { "gonk_snapshot_url", "gaia", "gaia.l10n", "zip_files",
                 "upload_files" },
      config_version |-> 1,
      zip_matches   |-> { << "a", ".apk" >>, << "b", ".txt" >> },
      upload_matches |-> { << "system", ".img" >> } ]

\* A descriptor whose upload_files patterns match two images and a file
\* that is not an image, and that bundles nothing.
ImagesDescriptor ==
    [ keys |-> { "gonk_snapshot_url", "upload_files" },
      config_version |-> 1,
      zip_matches   |-> { },
      upload_matches |-> { << "system", ".img" >>, << "userdata", ".img" >>,
                           << "sources", ".xml" >> } ]

EmptyDescriptor ==
    [ keys |-> { }, config_version |-> 0, zip_matches |-> { },
      upload_matches |-> { } ]

\* ------------------------------------------------------ working directory
\* Raw modification times of a snapshot, in half seconds (os.path.getmtime
\* is a float): 0, 2.5, 10, 22.5, ... seconds.
RawMtimes == { 5 * k * k : k \in 0..MaxMtimes }

\* Characters a fingerprint file found in the working directory may hold.
FpChars == { "0", "1", "2", " ", "x" }

RECURSIVE SeqsUpTo(_, _)
SeqsUpTo(S, n) ==
    IF n = 0 THEN { << >> }
    ELSE LET shorter == SeqsUpTo(S, n - 1)
         IN  shorter \cup { Append(s, c) : s \in { t \in shorter : Len(t) = n - 1 }, c \in S }

\* The generated platform.ini: lines of key=value.
BuildIdDigits == << "2", "0", "2", "4", "0", "1", "0", "1", "0", "1", "0", "1", "0", "1" >>

PlatformWithId == << [ key |-> "Milestone", val |-> << "1", "8" >> ],
                     [ key |-> "BuildID", val |-> BuildIdDigits ] >>

PlatformWithoutId == << [ key |-> "BuildID", val |-> << "x" >> ] >>

\* An empty working directory.
\*   snapshot: raw modification time of gonk.tar.xz, as a set: {} when missing
\*   gonk_mtime: content of .gonk_mtime, as a set: {} when missing
\*   tree: the truncated mtime of the snapshot that is extracted, whole, in
\*     the directory, as a set: {} when none is
\*   platform_ini: content of platform.ini, as a set: {} when missing
\*   zip: entries of <target>.zip;  upload_dir, updates_dir: staged files
EmptyDir ==
    [ snapshot |-> { }, gonk_mtime |-> { }, tree |-> { }, userconfig |-> FALSE,
      platform_ini |-> { }, zip |-> { }, upload_dir |-> { },
      updates_dir |-> { }, local_copy |-> FALSE ]

\* Working directories a run can find: a snapshot or none, any short
\* fingerprint file or none. A fingerprint that some earlier run wrote
\* records a snapshot that run extracted.
WorkDirs ==
    { [ EmptyDir EXCEPT !.snapshot = s, !.gonk_mtime = f,
                        !.tree = IF f = { } THEN { }
                                 ELSE IntOfStr(CHOOSE c \in f : TRUE) \cap Nat,
                        !.platform_ini = p ] :
        s \in { { } } \cup { { m } : m \in RawMtimes },
        f \in { { } } \cup { { c } : c \in SeqsUpTo(FpChars, MaxFpLen) },
        p \in { { PlatformWithId } } }

\* No other process shares the working directory.
Alone == inst = << >>

\* No ParanoidConfig object is in use.
NoObject ==
    /\ _config = << >> /\ _configLock = FALSE
    /\ exited = { } /\ held = { }
    /\ called = [ op |-> "none", locked |-> FALSE, raised |-> FALSE,
                  caught |-> FALSE, result |-> { } ]

\* The state a new process starts in: configuration c, descriptor d,
\* selection a, working directory w, run r.
Fresh(c, d, a, w, r) ==
    /\ config = c
    /\ descriptor = d
    /\ actions = a
    /\ fs = w
    /\ unpacks = << >>
    /\ run = r
    /\ pos = 1
    /\ current = "none"
    /\ status = "running"
    /\ exit_code = { }
    /\ return_code = 0
    /\ started = << >>
    /\ calls = << >>
    /\ gecko_config = { }
    /\ loads = 0
    /\ props = { }
    /\ upload_path = { }

\* ------------------------------------------------------------ the engine
\* A stage method returns: run() goes on with the next stage.
Return == current' = "none" /\ UNCHANGED << status, exit_code >>

\* self.fatal(message, exit_code): the process ends at once with exit_code.
Fatal(code) == status' = "fatal" /\ exit_code' = { code } /\ current' = current

\* An exception nobody catches leaves the stage method: the interpreter
\* prints the traceback and the process ends with code 1.
Crash == status' = "crashed" /\ exit_code' = { 1 } /\ current' = current

\* run(): the next stage of all_actions is selected, its method is called.
Dispatch ==
    /\ status = "running" /\ current = "none"
    /\ pos \in DOMAIN all_actions
    /\ all_actions[pos] \in actions
    /\ current' = all_actions[pos]
    /\ started' = Append(started, all_actions[pos])
    /\ pos' = pos + 1
    /\ UNCHANGED << config, descriptor, actions, status, exit_code, return_code,
                    calls, gecko_config, loads, props, upload_path, fs, unpacks, inst, run,
                    elsewhere >>

\* run(): the next stage of all_actions is not selected, it is skipped.
SkipStage ==
    /\ status = "running" /\ current = "none"
    /\ pos \in DOMAIN all_actions
    /\ all_actions[pos] \notin actions
    /\ pos' = pos + 1
    /\ UNCHANGED << config, descriptor, actions, current, status, exit_code,
                    return_code, started, calls, gecko_config, loads, props,
                    upload_path, fs, unpacks, inst, run, elsewhere >>

\* run(): every stage was looked at, the process exits with return_code.
Finish ==
    /\ status = "running" /\ current = "none"
    /\ pos = Len(all_actions) + 1
    /\ status' = "done"
    /\ exit_code' = { return_code }
    /\ UNCHANGED << config, descriptor, actions, pos, current, return_code,
                    started, calls, gecko_config, loads, props, upload_path,
                    fs, unpacks, inst, run, elsewhere >>

\* ---------------------------------------------------------- collaborators
\* One call of a collaborator by the executing stage, and how it ended.
Call(kind, what, ok) == [ stage |-> current, kind |-> kind, what |-> what, ok |-> ok ]

\* A truthy self.gecko_config: a dict with at least one key.
Cached == gecko_config # { } /\ \A g \in gecko_config : g.keys # { }

\* load_gecko_config(): the cached descriptor when there is a truthy one,
\* else the descriptor file is read and kept.
load_gecko_config ==
    IF Cached THEN UNCHANGED << gecko_config, loads >>
    ELSE gecko_config' = { descriptor } /\ loads' = loads + 1

\* What load_gecko_config() returns.
GeckoConfig == IF Cached THEN CHOOSE g \in gecko_config : TRUE ELSE descriptor

NoLoad == UNCHANGED << gecko_config, loads >>

\* query_revision()
query_revision ==
    IF "revision" \in props THEN "rev-checked-out"
    ELSE IF config.buildbot.loaded /\ config.buildbot.sourcestamp THEN "rev-stamp"
    ELSE "None"

\* query_repo(), as path segments
query_repo ==
    IF config.buildbot.loaded /\ config.buildbot.properties
    THEN << "http:", "hg.mozilla.org", "repo_path" >>
    ELSE config.repo

\* query_branch(): the scheduler's branch, else os.path.basename of the repo
query_branch ==
    IF config.buildbot.loaded /\ config.buildbot.properties THEN "main"
    ELSE Last(query_repo)

\* re.search("^BuildID=(\d+)$", data, re.M) over the lines of data: the
\* digits of the first line that is BuildID=<one or more digits>, as a set.
BuildIdOf(data) ==
    LET hits == { i \in DOMAIN data :
                    /\ data[i].key = "BuildID"
                    /\ data[i].val # << >>
                    /\ \A j \in DOMAIN data[i].val : IsDigit(data[i].val[j]) }
    IN  IF hits = { } THEN { }
        ELSE { Join(data[CHOOSE i \in hits : \A k \in hits : i <= k].val) }

\* query_buildid() when platform.ini can be read: the build id, or None,
\* as %s formats it.
query_buildid ==
    LET found == BuildIdOf(CHOOSE d \in fs.platform_ini : TRUE)
    IN  IF found = { } THEN "None" ELSE CHOOSE b \in found : TRUE

\* ------------------------------------------------------ the stage methods
\* BaseScript.clobber(): the working directory is removed.
Clobbered == [ EmptyDir EXCEPT !.local_copy = fs.local_copy ]

\* clobber without its test of force_clobber.
clobber_unless_forced ==
    /\ status = "running" /\ current = "clobber"
    /\ IF config.is_automation
       THEN LET do_clobber == config.is_nightly
            IN  /\ calls' = calls
                      \o (IF do_clobber THEN << Call("clobber", "work_dir", TRUE) >> ELSE << >>)
                      \o << Call("purge", "purge_builds", TRUE) >>
                /\ fs' = IF do_clobber THEN Clobbered ELSE fs
       ELSE /\ calls' = Append(calls, Call("clobber", "work_dir", TRUE))
            /\ fs' = Clobbered
    /\ Return
    /\ NoLoad
    /\ UNCHANGED << return_code, props, upload_path >>
    /\ UNCHANGED fixed

clobber ==
    /\ status = "running" /\ current = "clobber"
    /\ IF config.is_automation
       THEN LET do_clobber == config.is_nightly \/ config.force_clobber
            IN  /\ calls' = calls
                      \o (IF do_clobber THEN << Call("clobber", "work_dir", TRUE) >> ELSE << >>)
                      \o << Call("purge", "purge_builds", TRUE) >>
                /\ fs' = IF do_clobber THEN Clobbered ELSE fs
       ELSE /\ calls' = Append(calls, Call("clobber", "work_dir", TRUE))
            /\ fs' = Clobbered
    /\ Return
    /\ NoLoad
    /\ UNCHANGED << return_code, props, upload_path >>
    /\ UNCHANGED fixed

checkout_gecko ==
    /\ status = "running" /\ current = "checkout-gecko"
    /\ calls' = Append(calls, Call("vcs", "gecko", TRUE))
    /\ props' = props \cup { "revision" }
    /\ Return
    /\ NoLoad
    /\ UNCHANGED << return_code, upload_path, fs >>
    /\ UNCHANGED fixed

\* The tail of download_gonk once gonk_url is known and not empty.
FetchSnapshot ==
    IF fs.local_copy
    THEN Return /\ UNCHANGED << calls, fs >>
    ELSE \E ok \in BOOLEAN, m \in RawMtimes :
            /\ calls' = Append(calls, Call("download", "gonk.tar.xz", ok))
            /\ IF ok
               THEN fs' = [ fs EXCEPT !.snapshot = { m } ] /\ Return
               ELSE fs' = fs /\ Fatal(2)

download_gonk ==
    /\ status = "running" /\ current = "download-gonk"
    /\ IF config.gonk_snapshot_url
       THEN FetchSnapshot /\ NoLoad
       ELSE /\ load_gecko_config
            /\ IF "tooltool_manifest" \in GeckoConfig.keys
               THEN \E ok \in BOOLEAN, m \in RawMtimes :
                       /\ calls' = Append(calls, Call("tooltool", "manifest", ok))
                       /\ fs' = IF ok THEN [ fs EXCEPT !.snapshot = { m } ] ELSE fs
                       /\ Return
               ELSE IF "gonk_snapshot_url" \notin GeckoConfig.keys
               THEN Crash /\ UNCHANGED << calls, fs >>
               ELSE FetchSnapshot
    /\ UNCHANGED << return_code, props, upload_path >>
    /\ UNCHANGED fixed

\* int(self.read_from_file(mtime_file)) inside the try of unpack_gonk: the
\* value, as a set, or the empty set when the file is missing or int() raises.
prev_mtime(file) == IF file = { } THEN { } ELSE IntOfStr(CHOOSE c \in file : TRUE)

\* The comparison made on the text of the file, not on its int().
already_unpacked_by_text(mtime, file) == file = { StrOfNat(mtime) }

\* The comparison of unpack_gonk: the fingerprint was read and equals mtime.
already_unpacked(mtime, file) == prev_mtime(file) = { mtime }

\* The fingerprint taken a second after the snapshot's modification time.
fingerprint_of_later(mtime) == StrOfNat(mtime + 1)

\* What unpack_gonk writes to the fingerprint file for mtime.
fingerprint_of(mtime) == StrOfNat(mtime)

\* self.write_to_file(path, contents) on the fingerprint file.
write_to_file(dir, contents) == [ dir EXCEPT !.gonk_mtime = { contents } ]

\* The working directory after tar ended, with the fingerprint written
\* before retval is looked at.
unpacked_written_first(dir, mtime, ok) ==
    write_to_file([ dir EXCEPT !.tree = IF ok THEN { mtime } ELSE { } ], fingerprint_of(mtime))

\* The working directory after tar ended: a failure is fatal and nothing is
\* written, after a success the fingerprint of mtime is.
unpacked(dir, mtime, ok) ==
    IF ok THEN write_to_file([ dir EXCEPT !.tree = { mtime } ], fingerprint_of(mtime))
    ELSE [ dir EXCEPT !.tree = { } ]

\* One call of unpack_gonk: the mtime it read (a set, empty when getmtime
\* raised), the fingerprint file before and after, how tar ended ("none"
\* when it was not run) and how the stage ended.
Unpack(mtime, tar, after, end) ==
    [ run |-> run, mtime |-> mtime, before |-> fs.gonk_mtime, tar |-> tar,
      after |-> after, end |-> end ]

unpack_gonk ==
    /\ status = "running" /\ current = "unpack-gonk"
    /\ IF fs.snapshot = { }
       THEN /\ Crash /\ UNCHANGED << calls, fs >>
            /\ unpacks' = Append(unpacks, Unpack({ }, "none", fs.gonk_mtime, "crashed"))
       ELSE LET mtime == IntOfRaw(CHOOSE m \in fs.snapshot : TRUE)
            IN  IF already_unpacked(mtime, fs.gonk_mtime)
                THEN /\ Return /\ UNCHANGED << calls, fs >>
                     /\ unpacks' = Append(unpacks, Unpack({ mtime }, "none", fs.gonk_mtime, "returned"))
                ELSE \E ok \in BOOLEAN, cat \in BOOLEAN :
                        /\ calls' = calls
                             \o << Call("exec", "tar xf gonk.tar.xz", ok) >>
                             \o (IF ok THEN << Call("exec", "cat sources.xml", cat) >> ELSE << >>)
                        /\ fs' = unpacked(fs, mtime, ok)
                        /\ IF ok THEN Return ELSE Fatal(2)
                        /\ unpacks' = Append(unpacks,
                             Unpack({ mtime }, IF ok THEN "ok" ELSE "failed", fs'.gonk_mtime,
                                    IF ok THEN "returned" ELSE "fatal"))
    /\ NoLoad
    /\ UNCHANGED << return_code, props, upload_path >>
    /\ UNCHANGED << config, descriptor, actions, pos, started, inst, run, elsewhere >>

checkout_gaia ==
    /\ status = "running" /\ current = "checkout-gaia"
    /\ load_gecko_config
    /\ IF "gaia" \in GeckoConfig.keys
       THEN /\ calls' = Append(calls, Call("vcs", "gaia", TRUE))
            /\ props' = props \cup { "gaia_revision" }
       ELSE UNCHANGED << calls, props >>
    /\ Return
    /\ UNCHANGED << return_code, upload_path, fs >>
    /\ UNCHANGED fixed

\* checkout_gaia_l10n without its test of l10n_config.
checkout_gaia_l10n_unchecked ==
    /\ status = "running" /\ current = "checkout-gaia-l10n"
    /\ IF ~config.gaia_languages_file
       THEN Return /\ NoLoad /\ UNCHANGED calls
       ELSE /\ load_gecko_config
            /\ calls' = Append(calls, Call("vcs", "gaia-l10n", TRUE))
            /\ Return
    /\ UNCHANGED << return_code, props, upload_path, fs >>
    /\ UNCHANGED fixed

checkout_gaia_l10n ==
    /\ status = "running" /\ current = "checkout-gaia-l10n"
    /\ IF ~config.gaia_languages_file
       THEN Return /\ NoLoad /\ UNCHANGED calls
       ELSE /\ load_gecko_config
            /\ IF "gaia.l10n" \notin GeckoConfig.keys
               THEN Fatal(255) /\ UNCHANGED calls
               ELSE /\ calls' = Append(calls, Call("vcs", "gaia-l10n", TRUE))
                    /\ Return
    /\ UNCHANGED << return_code, props, upload_path, fs >>
    /\ UNCHANGED fixed

\* ------------------------------------------- the output of build commands
\* The severities of mozharness.base.errors that the rule list uses, lowest
\* first; "none" is a line no rule matches.
Levels == << "none", "warning", "error" >>

WARNING == "warning"

ERROR == "error"

\* The fragments lines of build output are made of. A line is a sequence
\* of fragments, a substring is a run of consecutive fragments of it.
Fragments ==
    { "make: ", "/bin/bash: java: ", "command not found",
      "NS_ERROR_FILE_ALREADY_EXISTS: ", "Component returned failure code",
      "No rule to make target", "Warning: " }

\* The generic rules of mozharness.base.errors: the catch-all errors of a
\* shell and of make, and make's warnings.
MakefileErrorList ==
    << [ substr |-> << "command not found" >>, level |-> ERROR ],
       [ substr |-> << "No rule to make target" >>, level |-> ERROR ],
       [ substr |-> << "Warning: " >>, level |-> WARNING ] >>

\* The rule of line 29, appended to the generic rules.
FileExistsRule ==
    [ substr |-> << "NS_ERROR_FILE_ALREADY_EXISTS: ", "Component returned failure code" >>,
      level |-> ERROR ]

\* The rule of line 31.
JavaRule ==
    [ substr |-> << "/bin/bash: java: ", "command not found" >>, level |-> WARNING ]

\* The rule list with the java rule appended like the other one.
B2GMakefileErrorList_java_appended == MakefileErrorList \o << FileExistsRule, JavaRule >>

\* B2GMakefileErrorList: MakefileErrorList + [...], then insert(0, ...).
B2GMakefileErrorList == << JavaRule >> \o MakefileErrorList \o << FileExistsRule >>

\* sub in line
Contains(line, sub) ==
    \E i \in 0..(Len(line) - Len(sub)) : SubSeq(line, i + 1, i + Len(sub)) = sub

\* The classifier on one line: the rules are tried in order, the first
\* whose substring the line contains gives the level.
LevelOf(line, error_list) ==
    LET hits == { i \in DOMAIN error_list : Contains(line, error_list[i].substr) }
    IN  IF hits = { } THEN "none"
        ELSE error_list[CHOOSE i \in hits : \A j \in hits : i <= j].level

\* The lines of output classified at error level.
ErrorLines(output, error_list) ==
    { i \in DOMAIN output : LevelOf(output[i], error_list) = ERROR }

\* What run_command(cmd, error_list=...) returns for a command that ended
\* with exit_status having printed output: the exit status when it is not
\* 0, else the number of lines classified at error level, so that 0 is a
\* success and nothing else is.
run_command(exit_status, output, error_list) ==
    IF exit_status # 0 THEN exit_status
    ELSE Cardinality(ErrorLines(output, error_list))

\* The exit statuses of a command; a negative one is the signal that killed it.
ExitStatuses == { 0, 1, 2, 0 - 9 }

\* A build command that prints nothing worth a rule and ends with 0, and
\* one that make stops with 2.
PlainBuilds ==
    { [ exit_status |-> 0, output |-> << << "make: " >> >> ],
      [ exit_status |-> 2, output |-> << << "make: ", "No rule to make target" >> >> ] }

\* Every line of at most MaxLineLen fragments.
Lines == SeqsUpTo(Fragments, MaxLineLen)

\* Build commands of every exit status printing one line, any line, or a
\* harmless line and then the benign or the generic failure of a command.
AnyBuilds ==
    { [ exit_status |-> e, output |-> o ] :
        e \in ExitStatuses,
        o \in { << >> } \cup { << l >> : l \in Lines }
              \cup { << << "make: " >>, l >> :
                       l \in { << "/bin/bash: java: ", "command not found" >>,
                               << "make: ", "command not found" >>,
                               << "Warning: " >> } } }

\* 'mock_target' in gecko_config
Mock == "mock_target" \in GeckoConfig.keys

\* run_command(...) whether the descriptor names a sandbox or not.
Run_directly(what, ok) == Call("exec", what, ok)

\* run_mock_command(...) when the descriptor names a sandbox, else run_command(...)
Run(what, ok) == Call(IF Mock THEN "mock_exec" ELSE "exec", what, ok)

\* setup_mock(...) when the descriptor names a sandbox
SetupMock == IF Mock THEN << Call("setup_mock", "mock_target", TRUE) >> ELSE << >>

\* The ccache statistics command, when ccache is on; its result is not read.
Ccache(what) == IF config.ccache THEN << Run(what, TRUE) >> ELSE << >>

\* The end of build with the check of retval left out.
build_result_unchecked(ok) == Return

\* The end of build: a build command that did not return 0 is fatal.
build_result(ok) == IF ok THEN Return ELSE Fatal(2)

\* The check of build with a status below 0 taken for a success.
build_failed_when_positive(retval) == retval > 0

\* The check of build on what the build command returned.
build_failed(retval) == retval # 0

\* The working directory a failed build is removed from.
built_or_removed(dir, ok) ==
    IF ok THEN [ dir EXCEPT !.userconfig = TRUE, !.platform_ini = { PlatformWithId } ]
    ELSE EmptyDir

\* The working directory after build: .userconfig is written, and a build
\* that succeeded has generated platform.ini.
built(dir, ok) ==
    [ dir EXCEPT !.userconfig = TRUE,
                 !.platform_ini = IF ok THEN { PlatformWithId } ELSE @ ]

build ==
    /\ status = "running" /\ current = "build"
    /\ load_gecko_config
    /\ LET retval == run_command(tool.exit_status, tool.output, B2GMakefileErrorList)
           ok == ~build_failed(retval)
       IN  /\ calls' = calls \o SetupMock \o Ccache("ccache -z")
                        \o << Run("build.sh", ok) >> \o Ccache("ccache -s")
           /\ fs' = built(fs, ok)
           /\ build_result(ok)
    /\ UNCHANGED << return_code, props, upload_path >>
    /\ UNCHANGED fixed

\* build_symbols with the symbols uploaded whether the build is nightly or not.
build_symbols_upload_always ==
    /\ status = "running" /\ current = "build-symbols"
    /\ load_gecko_config
    /\ IF GeckoConfig.config_version < 1
       THEN Return /\ UNCHANGED << calls, fs >>
       ELSE /\ fs' = [ fs EXCEPT !.userconfig = TRUE ]
            /\ \E ok \in BOOLEAN, up \in BOOLEAN :
                  IF ~ok
                  THEN /\ calls' = calls \o SetupMock \o << Run("build.sh buildsymbols", FALSE) >>
                       /\ Fatal(2)
                  ELSE /\ calls' = calls \o SetupMock
                                \o << Run("build.sh buildsymbols", TRUE),
                                      Run("build.sh uploadsymbols", up) >>
                       /\ IF up THEN Return ELSE Fatal(2)
    /\ UNCHANGED << return_code, props, upload_path >>
    /\ UNCHANGED fixed

build_symbols ==
    /\ status = "running" /\ current = "build-symbols"
    /\ load_gecko_config
    /\ IF GeckoConfig.config_version < 1
       THEN Return /\ UNCHANGED << calls, fs >>
       ELSE /\ fs' = [ fs EXCEPT !.userconfig = TRUE ]
            /\ \E ok \in BOOLEAN, up \in BOOLEAN :
                  IF ~ok
                  THEN /\ calls' = calls \o SetupMock \o << Run("build.sh buildsymbols", FALSE) >>
                       /\ Fatal(2)
                  ELSE IF ~config.is_nightly
                  THEN /\ calls' = calls \o SetupMock \o << Run("build.sh buildsymbols", TRUE) >>
                       /\ Return
                  ELSE /\ calls' = calls \o SetupMock
                                \o << Run("build.sh buildsymbols", TRUE),
                                      Run("build.sh uploadsymbols", up) >>
                       /\ IF up THEN Return ELSE Fatal(2)
    /\ UNCHANGED << return_code, props, upload_path >>
    /\ UNCHANGED fixed

\* sign_updates() without its early return: the tools are checked out and
\* the update is signed whatever the environment holds.
sign_updates_always(sofar) ==
    \E ok \in BOOLEAN :
        /\ calls' = sofar \o << Call("vcs", "tools", TRUE),
                                Call("sign", "signtool.py b2gmar", ok) >>
        /\ props' = props \cup { "tools_revision" }
        /\ IF ok THEN Return ELSE Fatal(2)

\* sign_updates(), called at the end of make_updates with the calls made so far.
sign_updates(sofar) ==
    IF ~config.signing_servers
    THEN calls' = sofar /\ props' = props /\ Return
    ELSE \E ok \in BOOLEAN :
            /\ calls' = sofar \o << Call("vcs", "tools", TRUE),
                                    Call("sign", "signtool.py b2gmar", ok) >>
            /\ props' = props \cup { "tools_revision" }
            /\ IF ok THEN Return ELSE Fatal(2)

make_updates ==
    /\ status = "running" /\ current = "make-updates"
    /\ IF ~config.is_nightly
       THEN Return /\ NoLoad /\ UNCHANGED << calls, props, fs >>
       ELSE /\ load_gecko_config
            /\ fs' = [ fs EXCEPT !.userconfig = TRUE ]
            /\ \E ok \in BOOLEAN :
                  LET sofar == calls \o SetupMock \o << Run("build.sh gecko-update-full", ok) >>
                  IN  IF ~ok
                      THEN calls' = sofar /\ props' = props /\ Fatal(2)
                      ELSE sign_updates(sofar)
    /\ UNCHANGED << return_code, upload_path >>
    /\ UNCHANGED fixed

RECURSIVE SetToSeq(_)
\* The elements of a finite set, one after the other.
SetToSeq(S) ==
    IF S = { } THEN << >>
    ELSE LET x == CHOOSE y \in S : TRUE IN << x >> \o SetToSeq(S \ { x })

\* f.endswith(".img")
IsImg(f) == f[2] = ".img"

\* os.path.basename(f), as text
Name(f) == f[1] \o f[2]

\* The name an image is staged under when f += ".bz2" is left out.
compressed_name_unchanged(f) == f

\* f += ".bz2"
compressed_name(f) == << f[1], f[2] \o ".bz2" >>

RECURSIVE StageCalls(_, _)
\* The calls of the loop over the files to stage, file after file: the
\* images in compressed are those bzip2 compressed; the copy of an image
\* that bzip2 did not compress finds no .bz2 file.
StageCalls(files, compressed) ==
    IF files = << >> THEN << >>
    ELSE LET f == Head(files)
             rest == StageCalls(Tail(files), compressed)
         IN  IF ~IsImg(f) THEN << Call("copy", Name(f), TRUE) >> \o rest
             ELSE IF config.is_nightly
             THEN << Call("exec", "bzip2 " \o Name(f), f \in compressed),
                     Call("copy", Name(compressed_name(f)), f \in compressed) >> \o rest
             ELSE rest

\* The files the loop leaves in the upload directory.
Staged(files, compressed) ==
    { f \in { files[i] : i \in DOMAIN files } : ~IsImg(f) }
    \cup (IF config.is_nightly THEN { compressed_name(f) : f \in compressed } ELSE { })

\* The archive left out of the upload directory.
staged_archive_never(bundle, archive) == { }

\* copy_to_upload_dir(zip_name), when files matched the zip_files patterns.
staged_archive(bundle, archive) == IF bundle # { } THEN { archive } ELSE { }

prep_upload ==
    /\ status = "running" /\ current = "prep-upload"
    /\ load_gecko_config
    /\ LET gc == GeckoConfig
           bundle == IF "zip_files" \in gc.keys THEN gc.zip_matches ELSE { }
           files == << << "build", ".prop" >> >>
                      \o (IF "upload_files" \in gc.keys THEN SetToSeq(gc.upload_matches) ELSE << >>)
           imgs == { f \in { files[i] : i \in DOMAIN files } : IsImg(f) }
           archive == << config.target, ".zip" >>
       IN  \E zipped \in BOOLEAN, compressed \in SUBSET imgs :
              IF bundle # { } /\ ~zipped
              THEN /\ calls' = Append(calls, Call("exec", "zip", FALSE))
                   /\ fs' = [ fs EXCEPT !.upload_dir = { } ]
                   /\ Fatal(255)
              ELSE /\ calls' = calls
                        \o (IF bundle # { }
                            THEN << Call("exec", "zip", TRUE), Call("copy", Name(archive), TRUE) >>
                            ELSE << >>)
                        \o StageCalls(files, compressed)
                        \o << Call("copy", "logs", TRUE) >>
                   /\ fs' = [ fs EXCEPT
                        !.zip = @ \cup bundle,
                        !.upload_dir = staged_archive(bundle, archive)
                                         \cup Staged(files, compressed)
                                         \cup { << "logs", "/" >> } ]
                   /\ Return
    /\ UNCHANGED << return_code, props, upload_path >>
    /\ UNCHANGED fixed

\* The submitter upload reads from buildbot_config, as a set; the empty set
\* when the lookup raises something other than KeyError.
Submitter ==
    LET b == config.buildbot
    IN  IF ~b.loaded THEN { }                      \* None is not subscriptable
        ELSE IF ~b.sourcestamp THEN { "unknown" }  \* KeyError
        ELSE IF b.changes = "absent" THEN { "unknown" }
        ELSE IF b.changes = "empty" THEN { }       \* IndexError
        ELSE IF b.changes = "no_who" THEN { "unknown" }
        ELSE { "alice" }

try_path(user) ==
    config.upload_remote_basepath \o "/" \o user \o "-" \o query_revision
        \o "/" \o query_branch \o "-" \o config.target

build_path ==
    config.upload_remote_basepath \o "/" \o query_branch \o "-" \o config.target
        \o "/" \o query_buildid

\* self.return_code set on both branches: a success resets it.
transfer_result_reset(rc, ok) == IF ok THEN 0 ELSE 2

\* self.return_code after a transfer ended: a failure sets it to 2, a
\* success leaves it as it is.
transfer_result(rc, ok) == IF ok THEN rc ELSE 2

\* The end of upload with self.fatal in place of self.error.
upload_result_fatal(ok) == IF ok THEN Return ELSE Fatal(2)

\* The end of upload: the stage returns whatever the transfer did.
upload_result(ok) == Return

\* The transfer of upload and what it does to return_code.
Transfer(path) ==
    \E ok \in BOOLEAN :
        /\ calls' = Append(calls, Call("transfer", "upload_dir", ok))
        /\ return_code' = transfer_result(return_code, ok)
        /\ upload_path' = { path }
        /\ upload_result(ok)

upload ==
    /\ status = "running" /\ current = "upload"
    /\ IF config.enable_try_uploads
       THEN IF Submitter = { }
            THEN Crash /\ UNCHANGED << calls, return_code, upload_path >>
            ELSE Transfer(try_path(CHOOSE u \in Submitter : TRUE))
       ELSE IF fs.platform_ini = { }
            THEN Crash /\ UNCHANGED << calls, return_code, upload_path >>
            ELSE Transfer(build_path)
    /\ NoLoad
    /\ UNCHANGED << props, fs >>
    /\ UNCHANGED fixed

\* make_update_xml without its first early return.
update_xml_skipped_without_update == ~config.update

\* The two early returns of make_update_xml.
update_xml_skipped == ~config.is_nightly \/ ~config.update

make_update_xml ==
    /\ status = "running" /\ current = "make-update-xml"
    /\ IF update_xml_skipped
       THEN Return /\ UNCHANGED << calls, fs >>
       ELSE IF fs.platform_ini = { }
       THEN /\ fs' = [ fs EXCEPT !.updates_dir = { } ]
            /\ Crash /\ UNCHANGED calls
       ELSE \E ok \in BOOLEAN :
               /\ calls' = Append(calls, Call("update_xml", "create_update_xml", ok))
               /\ IF ok
                  THEN /\ fs' = [ fs EXCEPT !.updates_dir =
                                    { << "update", ".xml" >>,
                                      << "b2g_update_" \o query_buildid, ".mar" >>,
                                      << "application_" \o query_buildid, ".ini" >>,
                                      << "update_" \o query_buildid, ".xml" >> } ]
                       /\ Return
                  ELSE /\ fs' = [ fs EXCEPT !.updates_dir = { } ]
                       /\ Fatal(255)
    /\ NoLoad
    /\ UNCHANGED << return_code, props, upload_path >>
    /\ UNCHANGED fixed

\* upload_updates without its second early return.
upload_updates_skipped_when_not_nightly == ~config.is_nightly

\* The two early returns of upload_updates.
upload_updates_skipped == ~config.is_nightly \/ ~config.update

\* The end of upload_updates with self.fatal in place of self.error.
upload_updates_result_fatal(dated, all) == IF dated /\ all THEN Return ELSE Fatal(2)

\* The end of upload_updates: the stage returns whatever its transfers did.
upload_updates_result(dated, all) == Return

upload_updates ==
    /\ status = "running" /\ current = "upload-updates"
    /\ IF upload_updates_skipped
       THEN Return /\ UNCHANGED << calls, return_code >>
       ELSE \E dated \in BOOLEAN, all \in BOOLEAN :
               IF config.autopublish
               THEN /\ calls' = calls \o << Call("transfer", "updates_dir --exclude=update.xml", dated),
                                            Call("transfer", "updates_dir", all) >>
                    /\ return_code' = transfer_result(transfer_result(return_code, dated), all)
                    /\ upload_updates_result(dated, all)
               ELSE /\ calls' = Append(calls, Call("transfer", "updates_dir --exclude=update.xml", dated))
                    /\ return_code' = transfer_result(return_code, dated)
                    /\ upload_updates_result(dated, TRUE)
    /\ NoLoad
    /\ UNCHANGED << props, upload_path, fs >>
    /\ UNCHANGED fixed

\* ------------------------------------------------------- specifications
\* The stage methods but for the last: upload-updates never returns.
StageButLast ==
    \/ clobber \/ checkout_gecko \/ download_gonk \/ unpack_gonk
    \/ checkout_gaia \/ checkout_gaia_l10n \/ build \/ build_symbols
    \/ make_updates \/ prep_upload \/ upload \/ make_update_xml

Stage ==
    \/ clobber \/ checkout_gecko \/ download_gonk \/ unpack_gonk
    \/ checkout_gaia \/ checkout_gaia_l10n \/ build \/ build_symbols
    \/ make_updates \/ prep_upload \/ upload \/ make_update_xml
    \/ upload_updates

Next == Dispatch \/ SkipStage \/ Finish \/ Stage

\* A new process is started in the working directory the last one left.
NewRun ==
    /\ status # "running"
    /\ run < MaxRuns
    /\ run' = run + 1
    /\ pos' = 1
    /\ current' = "none"
    /\ status' = "running"
    /\ exit_code' = { }
    /\ return_code' = 0
    /\ started' = << >>
    /\ calls' = << >>
    /\ gecko_config' = { }
    /\ loads' = 0
    /\ props' = { }
    /\ upload_path' = { }
    /\ UNCHANGED << config, descriptor, actions, fs, unpacks, inst, elsewhere >>

NextRerun == Next \/ NewRun

\* Nightly, update publishing and signing, every way round.
ModeConfigs ==
    { [ DefaultConfig EXCEPT !.is_nightly = n, !.update = u, !.autopublish = a,
                             !.signing_servers = g ] :
        n \in BOOLEAN, u \in BOOLEAN, a \in BOOLEAN, g \in BOOLEAN }

\* Try uploads and what the scheduler told about the submitter.
TryConfigs ==
    { [ DefaultConfig EXCEPT !.enable_try_uploads = t, !.buildbot = b ] :
        t \in BOOLEAN, b \in { x \in BuildbotConfigs : WellFormedBuildbot(x) } }

\* A working directory an earlier run unpacked and built in.
BuiltDir ==
    [ EmptyDir EXCEPT !.snapshot = { 5 }, !.gonk_mtime = { << "2" >> },
                      !.tree = { 2 }, !.platform_ini = { PlatformWithId } ]

\* A working directory with a snapshot that was never unpacked.
DownloadedDir == [ EmptyDir EXCEPT !.snapshot = { 5 } ]

\* The selections of the stage selection surface: none, the default
\* subset, all, and the explicit lists of the publishing stages.
Selections ==
    { { }, default_actions, AllStages,
      { "upload", "make-update-xml", "upload-updates" },
      { "make-updates", "upload-updates" } }

Init ==
    \E c \in ModeConfigs, a \in Selections, w \in { EmptyDir, BuiltDir, DownloadedDir } :
        Fresh(c, FullDescriptor, a, w, 1) /\ Alone /\ tool \in PlainBuilds /\ NoObject

Spec == Init /\ [][Next]_vars

\* Every selection of stages.
InitSelect ==
    \E a \in SUBSET AllStages,
       c \in { DefaultConfig, [ DefaultConfig EXCEPT !.is_nightly = TRUE, !.update = TRUE ] } :
        Fresh(c, FullDescriptor, a, BuiltDir, 1) /\ Alone /\ tool \in PlainBuilds /\ NoObject

SpecSelect == InitSelect /\ [][Next]_vars

\* The unpack stage over every working directory, run after run.
InitUnpack ==
    \E a \in { { "unpack-gonk" }, { "unpack-gonk", "build" },
               { "download-gonk", "unpack-gonk" }, AllStages },
       w \in WorkDirs :
        Fresh(DefaultConfig, FullDescriptor, a, w, 1) /\ Alone /\ tool \in PlainBuilds /\ NoObject

SpecUnpack == InitUnpack /\ [][NextRerun]_vars

\* The upload stage over every scheduler configuration.
InitPublish ==
    \E c \in TryConfigs, a \in { { "upload" }, { "checkout-gecko", "upload" }, AllStages },
       w \in { BuiltDir, DownloadedDir,
               [ BuiltDir EXCEPT !.platform_ini = { PlatformWithoutId } ] } :
        Fresh(c, FullDescriptor, a, w, 1) /\ Alone /\ tool \in PlainBuilds /\ NoObject

SpecPublish == InitPublish /\ [][Next]_vars

\* The build stage over every exit status and output of the build command.
InitBuild ==
    \E c \in { DefaultConfig, [ DefaultConfig EXCEPT !.ccache = FALSE ] },
       a \in { { "build" }, { "build", "build-symbols" }, AllStages },
       w \in { BuiltDir, DownloadedDir } :
        Fresh(c, FullDescriptor, a, w, 1) /\ Alone /\ tool \in AnyBuilds /\ NoObject

SpecBuild == InitBuild /\ [][Next]_vars

\* The stages that read the descriptor, over descriptors with and without
\* content, with and without the settings that make a stage read it.
InitDescriptor ==
    \E d \in { FullDescriptor, ImagesDescriptor, EmptyDescriptor },
       n \in BOOLEAN, l \in BOOLEAN, u \in BOOLEAN,
       a \in { { "checkout-gaia", "build" },
               { "download-gonk", "checkout-gaia", "checkout-gaia-l10n", "build",
                 "build-symbols", "make-updates", "prep-upload" },
               { "clobber", "checkout-gecko", "unpack-gonk", "upload" },
               AllStages } :
        Fresh([ DefaultConfig EXCEPT !.is_nightly = n, !.gaia_languages_file = l,
                                     !.gonk_snapshot_url = u ],
              d, a, BuiltDir, 1)
          /\ Alone /\ tool \in PlainBuilds /\ NoObject

SpecDescriptor == InitDescriptor /\ [][Next]_vars

\* A working directory an earlier run built and staged in.
StagedDir ==
    [ BuiltDir EXCEPT !.zip = { << "old", ".apk" >> },
                      !.upload_dir = { << "device-x", ".zip" >>, << "old", ".txt" >> } ]

\* The publishing stages, nightly or not, over descriptors that bundle
\* files, stage images, both or nothing.
InitStaging ==
    \E n \in BOOLEAN,
       d \in { FullDescriptor, ImagesDescriptor,
               [ FullDescriptor EXCEPT !.keys = @ \ { "zip_files", "upload_files" } ] },
       a \in { { "prep-upload" }, { "prep-upload", "upload" }, AllStages },
       w \in { BuiltDir, StagedDir } :
        Fresh([ DefaultConfig EXCEPT !.is_nightly = n ], d, a, w, 1)
          /\ Alone /\ tool \in PlainBuilds /\ NoObject

SpecStaging == InitStaging /\ [][Next]_vars

\* A descriptor that names a tooltool manifest for the snapshot.
ManifestDescriptor ==
    [ FullDescriptor EXCEPT !.keys = (@ \ { "gonk_snapshot_url" }) \cup { "tooltool_manifest" } ]

\* The snapshot stages over the three sources of the snapshot, with and
\* without a gonk.tar.xz in the directory the script is started in.
InitSnapshot ==
    \E u \in BOOLEAN, l \in BOOLEAN,
       d \in { FullDescriptor, ManifestDescriptor },
       a \in { { "download-gonk" }, { "download-gonk", "unpack-gonk" }, default_actions,
               AllStages } :
        Fresh([ DefaultConfig EXCEPT !.gonk_snapshot_url = u ], d, a,
              [ EmptyDir EXCEPT !.local_copy = l ], 1)
          /\ Alone /\ tool \in PlainBuilds /\ NoObject

SpecSnapshot == InitSnapshot /\ [][Next]_vars

\* A configuration in which nothing set a target.
WithoutTarget(c) == [ k \in DOMAIN c \ { "target" } |-> c[k] ]

\* B2GBuild(): the object is being constructed with configuration c, the
\* configuration is not locked yet and run() was not called.
Constructing(c, d, a, w) ==
    /\ config = c
    /\ descriptor = d
    /\ actions = a
    /\ fs = w
    /\ unpacks = << >>
    /\ run = 1
    /\ pos = 1
    /\ current = "none"
    /\ status = "configuring"
    /\ exit_code = { }
    /\ return_code = 0
    /\ started = << >>
    /\ calls = << >>
    /\ gecko_config = { }
    /\ loads = 0
    /\ props = { }
    /\ upload_path = { }

\* _pre_config_lock(): without a target self.fatal ends the process, else
\* the construction is completed and run() is called.
_pre_config_lock ==
    /\ status = "configuring"
    /\ IF "target" \notin DOMAIN config
       THEN status' = "fatal" /\ exit_code' = { 255 }
       ELSE status' = "running" /\ exit_code' = exit_code
    /\ UNCHANGED << config, descriptor, actions, pos, current, return_code,
                    started, calls, gecko_config, loads, props, upload_path,
                    fs, unpacks, inst, run, elsewhere >>

NextResolve == _pre_config_lock \/ Next

\* Runs with and without a target, with and without a localization file,
\* over descriptors with and without a gaia.l10n section.
InitResolve ==
    \E t \in BOOLEAN, l \in BOOLEAN, n \in BOOLEAN,
       d \in { FullDescriptor, [ FullDescriptor EXCEPT !.keys = @ \ { "gaia.l10n" } ],
               EmptyDescriptor },
       a \in { { "checkout-gaia-l10n" }, { "checkout-gaia", "checkout-gaia-l10n", "build" },
               default_actions, AllStages } :
        LET c == [ DefaultConfig EXCEPT !.gaia_languages_file = l, !.is_nightly = n ]
        IN  Constructing(IF t THEN c ELSE WithoutTarget(c), d, a, BuiltDir)
              /\ Alone /\ tool \in PlainBuilds /\ NoObject

SpecResolve == InitResolve /\ [][NextResolve]_vars

\* A descriptor that names a sandbox profile.
MockDescriptor == [ FullDescriptor EXCEPT !.keys = @ \cup { "mock_target" } ]

\* The stages that run build commands, with and without a sandbox
\* profile, ccache, nightly and signing servers.
InitSandbox ==
    \E cc \in BOOLEAN, n \in BOOLEAN, g \in BOOLEAN,
       d \in { FullDescriptor, MockDescriptor },
       a \in { { "build" }, { "build", "build-symbols", "make-updates" }, AllStages } :
        Fresh([ DefaultConfig EXCEPT !.ccache = cc, !.is_nightly = n,
                                     !.signing_servers = g ],
              d, a, BuiltDir, 1)
          /\ Alone /\ tool \in PlainBuilds /\ NoObject

SpecSandbox == InitSandbox /\ [][Next]_vars

\* The clobber stage in and outside automation, nightly or not, forced or
\* not, over working directories earlier runs left.
InitClobber ==
    \E au \in BOOLEAN, n \in BOOLEAN, f \in BOOLEAN,
       a \in { { "clobber" }, { "clobber", "unpack-gonk", "build" }, AllStages },
       w \in { EmptyDir, DownloadedDir, BuiltDir, StagedDir } :
        Fresh([ DefaultConfig EXCEPT !.is_automation = au, !.is_nightly = n,
                                     !.force_clobber = f ],
              FullDescriptor, a, w, 1)
          /\ Alone /\ tool \in PlainBuilds /\ NoObject

SpecClobber == InitClobber /\ [][Next]_vars

\* ------------------------------------------------------------ properties
Range(s) == { s[i] : i \in DOMAIN s }

IsPrefix(a, b) == Len(a) <= Len(b) /\ SubSeq(b, 1, Len(a)) = a

\* The subsequence of seq of the members of S.
Restrict(seq, S) == SelectSeq(seq, LAMBDA x : x \in S)

\* The stage method of the stage run() called last is still executing.
Active == status = "running" /\ current # "none"

\* The order of the stages of the catalogue.
CatalogueOrder ==
    << "clobber", "checkout-gecko", "download-gonk", "unpack-gonk",
       "checkout-gaia", "checkout-gaia-l10n", "build", "build-symbols",
       "make-updates", "prep-upload", "upload", "make-update-xml",
       "upload-updates" >>

\* C1: whatever the selection, the stages started so far are the first
\* stages of the catalogue order restricted to the selection, all of them
\* once the run is done, and the one stage that is executing is the one
\* started last: nothing outside the selection, nothing twice, nothing
\* out of order, never two stages at once.
C1_CatalogueOrder ==
    /\ IsPrefix(started, Restrict(CatalogueOrder, actions))
    /\ status = "done" => started = Restrict(CatalogueOrder, actions)
    /\ current # "none" => started # << >> /\ current = Last(started)

\* A run of the default subset came to its end.
C1_Witness ==
    /\ status = "done"
    /\ actions = default_actions
    /\ started = << "checkout-gecko", "download-gonk", "unpack-gonk", "build" >>

\* The collaborator calls whose failure a stage answers with self.fatal.
FatalWhenFailed(c) ==
    \/ c.kind = "download"
    \/ c.kind = "sign"
    \/ c.kind = "update_xml"
    \/ c.kind \in { "exec", "mock_exec" }
         /\ c.what \in { "tar xf gonk.tar.xz", "build.sh", "build.sh buildsymbols",
                         "build.sh uploadsymbols", "build.sh gecko-update-full", "zip" }

\* C2: once a download, an unpack, a build, a buildsymbols or uploadsymbols,
\* an update generation, a signing, a zip or an update.xml generation has
\* failed, the run is aborted with a completion code that is not 0, and the
\* stage that made the failed call is the last stage that was started.
C2_FailFast ==
    \A i \in DOMAIN calls :
        ~calls[i].ok /\ FatalWhenFailed(calls[i]) =>
            /\ status = "fatal"
            /\ exit_code # { } /\ 0 \notin exit_code
            /\ current = calls[i].stage
            /\ Last(started) = calls[i].stage
            /\ \A j \in DOMAIN calls : j > i => calls[j].stage = calls[i].stage

\* The build command failed in a run of all stages with later stages selected.
C2_Witness ==
    /\ actions = AllStages
    /\ status = "fatal"
    /\ \E i \in DOMAIN calls : calls[i].what = "build.sh" /\ ~calls[i].ok

\* The transfer of the upload stage failed.
UploadFailed ==
    \E i \in DOMAIN calls :
        calls[i].stage = "upload" /\ calls[i].kind = "transfer" /\ ~calls[i].ok

\* The selected stages after the upload stage.
AfterUpload == actions \cap { "make-update-xml", "upload-updates" }

\* C3: a failed transfer of the upload stage sets the return code to 2 and
\* does not end the run in the upload stage: run() goes on, a run that ends
\* afterwards ends done with every later selected stage started, or aborted
\* by one of the later selected stages.
C3_UploadRecoverable ==
    UploadFailed =>
        /\ return_code = 2
        /\ current # "upload"
        /\ status = "done" => AfterUpload \subseteq Range(started)
        /\ status \in { "fatal", "crashed" } => current \in AfterUpload

\* The transfer of upload failed and both later stages were started.
C3_Witness ==
    /\ UploadFailed
    /\ status = "done"
    /\ Last(started) = "upload-updates"
    /\ "make-update-xml" \in Range(started)

\* Some transfer of a publishing stage failed.
TransferFailed == \E i \in DOMAIN calls : calls[i].kind = "transfer" /\ ~calls[i].ok

\* C4: the return code is not 0 exactly when a transfer of this run has
\* failed, whatever the stages after it did, and a run that completed its
\* stages exits with the return code: not 0 exactly when a transfer failed.
C4_DegradedForGood ==
    /\ return_code # 0 <=> TransferFailed
    /\ status = "done" => exit_code = { return_code }

\* The transfer of upload failed, both transfers of upload-updates succeeded
\* after it, and the run exited with 2.
C4_Witness ==
    /\ status = "done"
    /\ exit_code = { 2 }
    /\ \E i, j, k \in DOMAIN calls :
          /\ i < j /\ j < k
          /\ calls[i].kind = "transfer" /\ ~calls[i].ok
          /\ calls[j].kind = "transfer" /\ calls[j].ok /\ calls[j].stage = "upload-updates"
          /\ calls[k].kind = "transfer" /\ calls[k].ok

\* The stages of the update packaging workflow.
UpdateStages == { "make-updates", "make-update-xml", "upload-updates" }

\* C10: in a build that is not nightly, the method of make-updates, of
\* make-update-xml and of upload-updates makes no collaborator call, leaves
\* the working directory, the return code, the properties and the cached
\* descriptor as they are, and returns, so that run() goes on.
C10_NotNightlyNoOp ==
    [][ Active /\ current \in UpdateStages /\ ~config.is_nightly =>
          /\ calls' = calls
          /\ fs' = fs
          /\ return_code' = return_code
          /\ props' = props
          /\ loads' = loads
          /\ status' = "running" /\ current' = "none" /\ exit_code' = { } ]_vars

\* A build that is not nightly, with update publishing configured, ran the
\* three stages and came to its end without a call.
C10_Witness ==
    /\ ~config.is_nightly /\ config.update
    /\ status = "done"
    /\ UpdateStages \subseteq Range(started)
    /\ \A i \in DOMAIN calls : calls[i].stage \notin UpdateStages

\* C5: unpack_gonk returns without running tar exactly when the fingerprint
\* file exists, int() accepts its content and the value is the truncated
\* modification time of the snapshot; with a snapshot in place and the
\* fingerprint file missing or not accepted by int(), tar is run and the
\* stage ends as tar decides.
C5_SkipIffSameMtime ==
    \A i \in DOMAIN unpacks :
        LET u == unpacks[i]
            parsed == IF u.before = { } THEN { } ELSE IntOfStr(CHOOSE c \in u.before : TRUE)
        IN  /\ (u.tar = "none" /\ u.end = "returned") <=>
                (u.before # { } /\ parsed # { } /\ u.mtime # { } /\ parsed = u.mtime)
            /\ u.mtime # { } /\ parsed = { } =>
                u.tar # "none" /\ (u.end = "fatal" <=> u.tar = "failed")

\* unpack_gonk returned without running tar on a fingerprint file that is
\* not what str() writes, and ran tar on one that int() does not accept.
C5_Witness ==
    /\ Len(unpacks) = 2
    /\ unpacks[1].before = { << "x" >> } /\ unpacks[1].tar = "ok"
    /\ unpacks[2].before = { << "2" >> } /\ unpacks[2].tar = "none"

\* C6: of two calls of unpack_gonk one after the other, with no stage that
\* removes or fetches the snapshot selected and the snapshot's modification
\* time the same for both, when the first did not find its fingerprint and
\* its tar succeeded, the second runs no tar, returns, and finds and leaves
\* the fingerprint file as the first wrote it: one extraction in all.
C6_UnpackIdempotent ==
    \A i \in DOMAIN unpacks :
        i < Len(unpacks) =>
            LET a == unpacks[i]
                b == unpacks[i + 1]
            IN  /\ actions \cap { "clobber", "download-gonk" } = { }
                /\ a.mtime # { } /\ b.mtime = a.mtime
                /\ prev_mtime(a.before) # a.mtime
                /\ a.tar = "ok"
                =>  /\ b.tar = "none" /\ b.end = "returned"
                    /\ b.before = a.after /\ b.after = b.before
                    /\ fs.gonk_mtime = a.after
                    /\ b.run = run =>
                         \A j \in DOMAIN calls : calls[j].what # "tar xf gonk.tar.xz"

\* A first run extracted a snapshot that had no fingerprint file, a second
\* run of the unpack stage alone skipped it.
C6_Witness ==
    /\ actions = { "unpack-gonk" }
    /\ run = 2 /\ status = "done"
    /\ Len(unpacks) = 2
    /\ unpacks[1].before = { } /\ unpacks[1].tar = "ok"
    /\ unpacks[2].tar = "none" /\ calls = << >>

\* C7: the fingerprint file changes only in a call whose tar succeeded;
\* every call whose tar succeeded leaves in it str() of the modification
\* time it read, also when there was no file before; a call whose tar
\* failed aborts the run and leaves the file as it found it, which is not
\* a fingerprint of the snapshot.
C7_FingerprintAfterSuccess ==
    /\ \A i \in DOMAIN unpacks :
          LET u == unpacks[i]
          IN  /\ u.after # u.before => u.tar = "ok"
              /\ u.tar = "ok" => u.after = { StrOfNat(m) : m \in u.mtime }
              /\ u.tar = "failed" =>
                    /\ u.end = "fatal"
                    /\ u.after = u.before
                    /\ prev_mtime(u.after) # u.mtime
    /\ status = "fatal" /\ current = "unpack-gonk" =>
          /\ Last(unpacks).tar = "failed"
          /\ fs.gonk_mtime = Last(unpacks).before

\* tar failed on a snapshot whose fingerprint file held something else, and
\* tar succeeded where there was no fingerprint file.
C7_Witness ==
    /\ Len(unpacks) = 2
    /\ unpacks[1].tar = "failed" /\ unpacks[1].before = { << "1" >> }
    /\ fs.gonk_mtime = { << "1", "0" >> }
    /\ unpacks[2].tar = "ok"

\* The upload stage was started and its method is over.
UploadOver == "upload" \in Range(started) /\ ~(Active /\ current = "upload")

\* The scheduler named the submitter of the change.
SubmitterAvailable ==
    config.buildbot.loaded /\ config.buildbot.sourcestamp /\ config.buildbot.changes = "who"

\* C9: once the upload stage is over, the destination is, with try uploads
\* on, basepath/<user>-<revision>/<branch>-<target>, where user is the
\* submitter, "unknown" when there is none, whatever platform.ini holds;
\* and with try uploads off and a platform.ini that has a BuildID line,
\* basepath/<branch>-<target>/<buildid>.
C9_PathByTemplate ==
    UploadOver =>
        IF config.enable_try_uploads
        THEN upload_path =
               { "base/" \o (IF SubmitterAvailable THEN "alice" ELSE "unknown") \o "-"
                   \o query_revision \o "/" \o query_branch \o "-device-x" }
        ELSE \A d \in fs.platform_ini :
                BuildIdOf(d) # { } =>
                    upload_path = { "base/" \o query_branch \o "-device-x/" \o "20240101010101" }

\* ------------------------------------------- the update packaging workflow
\* The calls that do work: executor commands, signing calls and transfers.
IsWork(c) == c.kind \in { "exec", "mock_exec", "sign", "transfer" }

\* The calls stage s has made.
CallsOf(s) == SelectSeq(calls, LAMBDA c : c.stage = s)

\* The method of stage s was called and is over.
Over(s) == s \in Range(started) /\ ~(Active /\ current = s)

\* C11 as stated: unless the build is nightly and update publishing is
\* configured, no stage of the update packaging workflow issues an executor
\* command, a signing call or a transfer call.
C11_WorkOnlyWithUpdate ==
    ~(config.is_nightly /\ config.update) =>
        \A i \in DOMAIN calls : calls[i].stage \in UpdateStages => ~IsWork(calls[i])

\* C11 amended: make-update-xml and upload-updates make no call unless the
\* build is nightly and update publishing is configured; make-updates makes
\* no call unless the build is nightly, and in a nightly build it issues the
\* update generation command whether update publishing is configured or not.
C11_WorkByStage ==
    /\ ~(config.is_nightly /\ config.update) =>
          CallsOf("make-update-xml") = << >> /\ CallsOf("upload-updates") = << >>
    /\ ~config.is_nightly => CallsOf("make-updates") = << >>
    /\ config.is_nightly /\ Over("make-updates") =>
          \E i \in DOMAIN calls :
              /\ calls[i].stage = "make-updates"
              /\ calls[i].what = "build.sh gecko-update-full"

\* A nightly build with no update publishing configured generated and
\* signed the update, and its two other update stages did nothing.
C11_Witness ==
    /\ config.is_nightly /\ ~config.update /\ config.signing_servers
    /\ status = "done"
    /\ UpdateStages \subseteq Range(started)
    /\ \E i \in DOMAIN calls : calls[i].stage = "make-updates" /\ calls[i].kind = "sign"
    /\ CallsOf("make-update-xml") = << >> /\ CallsOf("upload-updates") = << >>

\* The calls of the update packaging workflow that run a tool.
IsUpdateExecutor(c) ==
    /\ c.stage \in UpdateStages
    /\ c.kind \in { "exec", "mock_exec", "sign", "update_xml" }

IsUpdateTransfer(c) == c.stage \in UpdateStages /\ c.kind = "transfer"

\* The run was aborted by the stage that made call i, which is the last call.
AbortedAt(i) ==
    /\ status = "fatal"
    /\ exit_code # { } /\ 0 \notin exit_code
    /\ current = calls[i].stage /\ Last(started) = calls[i].stage
    /\ i = Len(calls)

C13_SigningOptional ==
    [][ Active /\ current = "make-updates" /\ config.is_nightly =>
          LET new == SubSeq(calls', Len(calls) + 1, Len(calls'))
              made == \E i \in DOMAIN new :
                         new[i].what = "build.sh gecko-update-full" /\ new[i].ok
              signing == { i \in DOMAIN new : new[i].kind = "sign" }
              tools == { i \in DOMAIN new : new[i].kind = "vcs" }
          IN  /\ IsPrefix(calls, calls')
              /\ made /\ ~config.signing_servers =>
                    /\ signing = { } /\ tools = { }
                    /\ props' = props
                    /\ return_code' = return_code
                    /\ status' = "running" /\ current' = "none" /\ exit_code' = { }
              /\ made /\ config.signing_servers =>
                    /\ tools # { } /\ signing = { Len(new) }
                    /\ \A t \in tools : t < Len(new)
                    /\ return_code' = return_code
                    /\ IF new[Len(new)].ok
                       THEN status' = "running" /\ current' = "none"
                       ELSE status' = "fatal" /\ exit_code' # { } /\ 0 \notin exit_code'
              /\ ~made => signing = { } /\ tools = { } ]_vars

\* A nightly build with no signing servers generated its update and went on
\* to its end without a signing call.
C13_Witness ==
    /\ config.is_nightly /\ ~config.signing_servers
    /\ status = "done" /\ return_code = 0
    /\ \E i \in DOMAIN calls :
          calls[i].what = "build.sh gecko-update-full" /\ calls[i].ok
    /\ \A i \in DOMAIN calls : calls[i].kind # "sign" /\ calls[i].what # "tools"

\* ------------------------------------------------------------ the executor
\* The build command failed: its exit status is not 0, or a line of its
\* output is classified at error level.
BuildCommandFailed ==
    \/ tool.exit_status # 0
    \/ \E i \in DOMAIN tool.output : LevelOf(tool.output[i], B2GMakefileErrorList) = "error"

\* C14: once the method of build is over, the build command counted as a
\* success exactly when its exit status was 0 and no line of its output was
\* classified at error level; every other outcome, an exit status other
\* than 0 (below 0 too) as well as an error-level line with exit status 0,
\* aborted the run in build with a completion code that is not 0, and no
\* stage was started after build.
C14_BuildFailureFatal ==
    Over("build") =>
        /\ \A i \in DOMAIN calls :
              calls[i].what = "build.sh" => (calls[i].ok <=> ~BuildCommandFailed)
        /\ BuildCommandFailed =>
              /\ status = "fatal" /\ current = "build"
              /\ exit_code # { } /\ 0 \notin exit_code
              /\ Last(started) = "build"
        /\ ~BuildCommandFailed => ~(status = "fatal" /\ current = "build")

\* A build command that ended with 0 and printed one error-level line
\* aborted a run of all stages in build.
C14_Witness ==
    /\ actions = AllStages
    /\ tool.exit_status = 0 /\ Len(tool.output) = 1
    /\ status = "fatal" /\ current = "build" /\ Last(started) = "build"

\* The substring of the benign rule.
JavaNotFound == << "/bin/bash: java: ", "command not found" >>

\* C15: the rule of '/bin/bash: java: command not found' is a warning and
\* the first of the list, every error rule comes after it; every line of
\* build output that contains it is classified warning, also when it
\* contains the substring of an error rule; and a build command that ended
\* with 0 and printed only such lines did not abort the run.
C15_JavaRuleFirst ==
    /\ B2GMakefileErrorList[1] = [ substr |-> JavaNotFound, level |-> "warning" ]
    /\ \A i \in DOMAIN B2GMakefileErrorList :
          B2GMakefileErrorList[i].level = "error" => i > 1
    /\ \E i \in DOMAIN B2GMakefileErrorList :
          B2GMakefileErrorList[i].level = "error"
            /\ Contains(JavaNotFound, B2GMakefileErrorList[i].substr)
    /\ Last(B2GMakefileErrorList).substr[1] = "NS_ERROR_FILE_ALREADY_EXISTS: "
    /\ \A i \in DOMAIN tool.output :
          Contains(tool.output[i], JavaNotFound) =>
              LevelOf(tool.output[i], B2GMakefileErrorList) = "warning"
    /\ Over("build") /\ tool.exit_status = 0
         /\ (\A i \in DOMAIN tool.output : Contains(tool.output[i], JavaNotFound))
         => ~(status = "fatal" /\ current = "build")

\* A build that printed a line with the java complaint followed by the
\* substring of another error rule, and ended with 0, went on to its end.
C15_Witness ==
    /\ status = "done" /\ "build" \in Range(started)
    /\ tool.exit_status = 0
    /\ tool.output = << << "/bin/bash: java: ", "command not found", "No rule to make target" >> >>

\* ------------------------------------------------------------- the stager
\* The files prep_upload stages one by one: build.prop and the matches of
\* the upload_files patterns.
Individual ==
    { << "build", ".prop" >> }
    \cup (IF "upload_files" \in descriptor.keys THEN descriptor.upload_matches ELSE { })

\* The positions in calls of the calls of kind k about w.
Where(k, w) == { i \in DOMAIN calls : calls[i].kind = k /\ calls[i].what = w }

\* prep_upload was called and returned.
Prepared == Over("prep-upload") /\ ~(status = "fatal" /\ current = "prep-upload")

\* C16: once prep_upload has returned, of the files staged one by one,
\* every file whose name ends in .img was, in a nightly build, given to
\* bzip2 before anything was copied under its .bz2 name, is staged under
\* that name when bzip2 compressed it, and is not staged under its own name;
\* in a build that is not nightly it was neither given to bzip2 nor copied,
\* and is staged under neither name; every other file is staged under its
\* own name, nightly or not.
C16_ImagesCompressedOrSkipped ==
    Prepared =>
        \A f \in Individual :
            LET own == << f[1], f[2] >>
                bz2 == << f[1], f[2] \o ".bz2" >>
                zipped == Where("exec", "bzip2 " \o f[1] \o f[2])
                copied == Where("copy", f[1] \o f[2] \o ".bz2")
            IN  IF f[2] # ".img"
                THEN own \in fs.upload_dir /\ Where("copy", f[1] \o f[2]) # { }
                ELSE /\ own \notin fs.upload_dir
                     /\ Where("copy", f[1] \o f[2]) = { }
                     /\ IF config.is_nightly
                        THEN /\ Cardinality(zipped) = 1
                             /\ \A i \in zipped, j \in copied : i < j
                             /\ (\E i \in zipped : calls[i].ok) <=> bz2 \in fs.upload_dir
                        ELSE zipped = { } /\ copied = { } /\ bz2 \notin fs.upload_dir

\* A nightly build staged two compressed images and a file that is not an
\* image.
C16_Witness ==
    /\ config.is_nightly /\ Prepared
    /\ { << "system", ".img.bz2" >>, << "userdata", ".img.bz2" >>,
         << "sources", ".xml" >>, << "build", ".prop" >> } \subseteq fs.upload_dir

\* The scenario: two bundled patterns matching one file each, one individual
\* pattern matching one image, a nightly build, prep-upload then upload,
\* both over and the image compressed.
Published ==
    /\ descriptor = FullDescriptor /\ config.is_nightly
    /\ Prepared /\ Over("upload") /\ status # "crashed"
    /\ << "system", ".img.bz2" >> \in fs.upload_dir

\* C17 as stated: in the scenario, one archive is created, it holds the two
\* bundled files, the image is compressed before any transfer, and upload
\* makes one transfer call per item, two in all.
C17_OneTransferPerItem ==
    Published =>
        /\ Cardinality(Where("exec", "zip")) = 1
        /\ descriptor.zip_matches \subseteq fs.zip
        /\ \A i \in Where("exec", "bzip2 system.img"), j \in DOMAIN calls :
              calls[j].kind = "transfer" => i < j
        /\ Len(SelectSeq(CallsOf("upload"), LAMBDA c : c.kind = "transfer")) = 2

\* C17 amended: in the scenario, one archive is created, it holds the two
\* bundled files and is staged, the image is compressed before any
\* transfer, and upload makes one transfer call in all, for the upload
\* directory, which holds the archive, the compressed image, build.prop
\* and the logs, and not the image itself.
C17_OneTransferOfDirectory ==
    Published =>
        /\ Cardinality(Where("exec", "zip")) = 1
        /\ descriptor.zip_matches \subseteq fs.zip
        /\ \A i \in Where("exec", "bzip2 system.img"), j \in DOMAIN calls :
              calls[j].kind = "transfer" => i < j
        /\ Where("exec", "bzip2 system.img") # { }
        /\ LET sent == SelectSeq(CallsOf("upload"), LAMBDA c : c.kind = "transfer")
           IN  Len(sent) = 1 /\ sent[1].what = "upload_dir"
        /\ fs.upload_dir = { << "device-x", ".zip" >>, << "system", ".img.bz2" >>,
                             << "build", ".prop" >>, << "logs", "/" >> }

\* The scenario, in a working directory where nothing was staged before,
\* with the transfer made and the run at its end.
C17_Witness ==
    /\ Published /\ status = "done" /\ return_code = 0
    /\ actions = { "prep-upload", "upload" }
    /\ fs.zip = { << "a", ".apk" >>, << "b", ".txt" >> }

\* ---------------------------------------------------------------- aborts
\* The method of stage s returned before the run was aborted.
CompletedBefore(s) == s \in Range(started) /\ s # current

\* C18: in a run that a stage aborted, what the stages that returned
\* before it have written is there as they wrote it: the fingerprint file
\* and the extracted snapshot of this run's unpack, the revision
\* properties of the checkouts, the files and the archive that prep-upload
\* staged, and the files that build generated.
C18_NoRollback ==
    status = "fatal" =>
        /\ \A i \in DOMAIN unpacks :
              unpacks[i].run = run /\ unpacks[i].tar = "ok" =>
                  /\ fs.gonk_mtime = unpacks[i].after
                  /\ fs.gonk_mtime = { StrOfNat(m) : m \in unpacks[i].mtime }
                  /\ fs.tree = unpacks[i].mtime
        /\ CompletedBefore("checkout-gecko") => "revision" \in props
        /\ CompletedBefore("checkout-gaia") /\ "gaia" \in descriptor.keys =>
              "gaia_revision" \in props
        /\ CompletedBefore("build") =>
              fs.userconfig /\ fs.platform_ini = { PlatformWithId }
        /\ CompletedBefore("prep-upload") =>
              /\ { << "build", ".prop" >>, << "logs", "/" >> } \subseteq fs.upload_dir
              /\ "zip_files" \in descriptor.keys =>
                    /\ << config.target, ".zip" >> \in fs.upload_dir
                    /\ descriptor.zip_matches \subseteq fs.zip

\* The generation of update.xml aborted a run that had unpacked the
\* snapshot, recorded the revisions and staged its files.
C18_Witness ==
    /\ status = "fatal" /\ current = "make-update-xml"
    /\ unpacks # << >> /\ Last(unpacks).tar = "ok"
    /\ fs.gonk_mtime # { }
    /\ { "revision", "gaia_revision" } \subseteq props
    /\ << "device-x", ".zip" >> \in fs.upload_dir

\* ------------------------------------------- ParanoidConfig of Config.py
\* The variable names and values of the self-test.
Keys == { "key1", "key2", "thisShouldFail" }

Values == { "value1", "miserably" }

\* The dicts over them.
Dicts == UNION { [ K -> Values ] : K \in SUBSET Keys }

\* mapConfig(config1, config2): the pairs of config2 copied onto a copy of
\* config1.
mapConfig(config1, config2) ==
    [ k \in DOMAIN config1 \cup DOMAIN config2 |->
        IF k \in DOMAIN config2 THEN config2[k] ELSE config1[k] ]

\* A check that never finds the lock set.
_checkConfigLock_skipped == FALSE

\* _checkConfigLock(): whether it prints FATAL and calls sys.exit(-1).
_checkConfigLock == _configLock

\* The process of the pipeline is not this one.
Pipeline ==
    UNCHANGED << config, descriptor, actions, pos, current, status, exit_code,
                 return_code, started, calls, gecko_config, loads, props,
                 upload_path, fs, unpacks, inst, run, tool >>

\* A call of op on the object; raised: sys.exit(-1) was called in it;
\* caught: the caller had it in a try with a bare except, as the self-test.
Called(op, raised, caught, result) ==
    [ op |-> op, locked |-> _configLock, raised |-> raised, caught |-> caught,
      result |-> result ]

\* SystemExit(-1) leaves the call: the caller that catches it goes on, any
\* other process ends with status 255.
SystemExit(op, caught) ==
    /\ called' = Called(op, TRUE, caught, { })
    /\ exited' = IF caught THEN { } ELSE { 255 }
    /\ UNCHANGED << _config, _configLock, held >>

lockConfig ==
    /\ exited = { }
    /\ _configLock' = TRUE
    /\ held' = IF held = { } THEN { _config } ELSE held
    /\ called' = Called("lockConfig", FALSE, FALSE, { })
    /\ UNCHANGED << _config, exited >>
    /\ Pipeline

setVar(varName, value, caught) ==
    /\ exited = { }
    /\ IF _checkConfigLock
       THEN SystemExit("setVar", caught)
       ELSE /\ _config' = [ k \in DOMAIN _config \cup { varName } |->
                              IF k = varName THEN value ELSE _config[k] ]
            /\ called' = Called("setVar", FALSE, caught, { })
            /\ UNCHANGED << _configLock, exited, held >>
    /\ Pipeline

setConfig(new, overwrite, caught) ==
    /\ exited = { }
    /\ IF _checkConfigLock
       THEN SystemExit("setConfig", caught)
       ELSE /\ _config' = IF _config # << >> /\ ~overwrite
                          THEN mapConfig(_config, new) ELSE new
            /\ called' = Called("setConfig", FALSE, caught, { })
            /\ UNCHANGED << _configLock, exited, held >>
    /\ Pipeline

\* queryConfig(varName): the value, or None (the empty set) for a name
\* that is not in the configuration.
queryVar(varName) ==
    /\ exited = { }
    /\ called' = Called("queryVar", FALSE, FALSE,
                        IF varName \in DOMAIN _config
                        THEN { << varName, _config[varName] >> } ELSE { << varName >> })
    /\ UNCHANGED << _config, _configLock, exited, held >>
    /\ Pipeline

\* queryConfig(): the configuration.
queryConfig ==
    /\ exited = { }
    /\ called' = Called("queryConfig", FALSE, FALSE, { _config })
    /\ UNCHANGED << _config, _configLock, exited, held >>
    /\ Pipeline

NextConfig ==
    \/ lockConfig
    \/ \E k \in Keys, v \in Values, caught \in BOOLEAN : setVar(k, v, caught)
    \/ \E c \in Dicts, o \in BOOLEAN, caught \in BOOLEAN : setConfig(c, o, caught)
    \/ \E k \in Keys : queryVar(k)
    \/ queryConfig

\* ParanoidConfig(config=c): __init__ stores c, the lock is not set.
InitConfig ==
    /\ Fresh(DefaultConfig, FullDescriptor, { }, EmptyDir, 1) /\ Alone
    /\ tool = [ exit_status |-> 0, output |-> << >> ]
    /\ _config \in Dicts /\ _configLock = FALSE
    /\ exited = { } /\ held = { }
    /\ called = [ op |-> "__init__", locked |-> FALSE, raised |-> FALSE,
                  caught |-> FALSE, result |-> { } ]

SpecConfig == InitConfig /\ [][NextConfig]_vars

\* Once lockConfig was called, the lock is set and the configuration is the
\* one of that time, and what the last query returned is taken from it.
LockedForGood ==
    held # { } =>
        /\ _configLock
        /\ held = { _config }
        /\ called.op = "queryConfig" => called.result = held
        /\ called.op = "queryVar" =>
              \A h \in held, r \in called.result :
                  IF r[1] \in DOMAIN h THEN r = << r[1], h[r[1]] >> ELSE r = << r[1] >>

\* The last call was a setVar or setConfig on the locked object.
RefusedCall == called.op \in { "setVar", "setConfig" } /\ called.locked

\* C19 as stated: once lockConfig was called the lock stays set, the
\* configuration stays, the queries return it, and after every setVar or
\* setConfig call on the locked object the process has ended with a
\* fatal exit status.
C19_LockedCallsTerminate ==
    /\ LockedForGood
    /\ RefusedCall => exited # { } /\ 0 \notin exited

\* C19 amended: once lockConfig was called the lock stays set, the
\* configuration stays, the queries return it, and every setVar or
\* setConfig call on the locked object calls sys.exit(-1) before it touches
\* the configuration: the process ends with a fatal exit status unless
\* the caller catches SystemExit, as the self-test does, and then goes on
\* with the configuration as it was.
C19_LockedCallsRaise ==
    /\ LockedForGood
    /\ RefusedCall =>
          /\ called.raised
          /\ IF called.caught THEN exited = { } ELSE exited # { } /\ 0 \notin exited

\* The self-test: the object is locked, setVar is called in a try, the
\* process goes on and the configuration is the one of lock time.
C19_Witness ==
    /\ held # { } /\ _config # << >>
    /\ called.op = "setVar" /\ called.locked /\ called.raised /\ called.caught
    /\ exited = { }

\* --------------------------------------------------- the product descriptor
\* The stages whose methods call load_gecko_config().
Accessing ==
    { "download-gonk", "checkout-gaia", "checkout-gaia-l10n", "build",
      "build-symbols", "make-updates", "prep-upload" }

\* C20: whatever the descriptor file holds, it is read at most once in a
\* run, not before a stage that reads the descriptor was started, and once
\* it was read self.gecko_config is its content.
C20_LoadedOnce ==
    /\ loads <= 1
    /\ loads > 0 => Range(started) \cap Accessing # { }
    /\ loads = 0 <=> gecko_config = { }
    /\ loads > 0 => gecko_config = { descriptor }

\* --------------------------------------------------------- the snapshot
\* A fetch of the snapshot that download-gonk made did not succeed.
FetchFailed ==
    \E i \in DOMAIN calls :
        /\ calls[i].stage = "download-gonk"
        /\ calls[i].kind \in { "download", "tooltool" }
        /\ ~calls[i].ok

\* C22: once download-gonk has ended with a fetch that failed, or with no
\* gonk.tar.xz in the working directory, whatever the source, the run is
\* aborted by that stage with a code that is not 0 and unpack-gonk was
\* not started.
C22_NoSnapshotIsFatal ==
    Over("download-gonk") /\ (FetchFailed \/ fs.snapshot = { }) =>
        /\ status \in { "fatal", "crashed" } /\ current = "download-gonk"
        /\ exit_code # { } /\ 0 \notin exit_code
        /\ "unpack-gonk" \notin Range(started)

\* ------------------------------------------- missing configuration
\* C23: a run without a target is aborted while the configuration is
\* resolved, with a code that is not 0, and no stage is ever started and
\* no collaborator called; checkout-gaia-l10n with a localization file
\* and a descriptor without gaia.l10n aborts the run and has fetched no
\* locale source; without a localization file it calls nothing and
\* returns, and the run goes on.
C23_MissingConfigFatal ==
    /\ "target" \notin DOMAIN config /\ status # "configuring" =>
          /\ status = "fatal" /\ exit_code # { } /\ 0 \notin exit_code
          /\ started = << >> /\ calls = << >> /\ current = "none"
    /\ Over("checkout-gaia-l10n") /\ config.gaia_languages_file
          /\ "gaia.l10n" \notin descriptor.keys =>
          /\ status = "fatal" /\ exit_code # { } /\ 0 \notin exit_code
          /\ current = "checkout-gaia-l10n"
          /\ CallsOf("checkout-gaia-l10n") = << >>
    /\ Over("checkout-gaia-l10n") /\ ~config.gaia_languages_file =>
          /\ CallsOf("checkout-gaia-l10n") = << >>
          /\ current # "checkout-gaia-l10n"
          /\ status \in { "running", "done" } \/ current # "none"

\* The localization stage aborted a run that has a target and a
\* localization file, after the stages before it had done their work.
C23_Witness ==
    /\ "target" \in DOMAIN config /\ config.gaia_languages_file
    /\ status = "fatal" /\ current = "checkout-gaia-l10n"
    /\ "gaia.l10n" \notin descriptor.keys
    /\ calls # << >>

\* ------------------------------------------------------------ the sandbox
SandboxStages == { "build", "build-symbols", "make-updates" }

\* The descriptor names a sandbox profile.
Named == "mock_target" \in descriptor.keys

\* The ./build.sh and ccache commands.
BuildCommands ==
    { "ccache -z", "build.sh", "ccache -s", "build.sh buildsymbols",
      "build.sh uploadsymbols", "build.sh gecko-update-full" }

\* Call i of cs is made in the sandbox, which an earlier call of cs set up.
Sandboxed(cs, i) ==
    /\ cs[i].kind = "mock_exec"
    /\ \E j \in DOMAIN cs : j < i /\ cs[j].kind = "setup_mock"

\* C24 as stated: with a sandbox profile named, every command that build,
\* build-symbols or make-updates issues, the signing command included, is
\* run inside the sandbox after the stage has initialized it; with none
\* named no stage initializes a sandbox and every command runs directly.
C24_EveryCommandSandboxed ==
    \A s \in SandboxStages :
        LET cs == CallsOf(s)
        IN  \A i \in DOMAIN cs :
                IF Named
                THEN cs[i].kind \in { "exec", "mock_exec", "sign" } => Sandboxed(cs, i)
                ELSE cs[i].kind \notin { "setup_mock", "mock_exec" }

\* C24, amended: with a sandbox profile named, every ./build.sh and ccache
\* command that build, build-symbols or make-updates issues is run inside
\* the sandbox after the stage has initialized it, and the one command of
\* these stages that runs directly is the signing command of make-updates;
\* with none named no stage initializes a sandbox and every command runs
\* directly.
C24_BuildCommandsSandboxed ==
    \A s \in SandboxStages :
        LET cs == CallsOf(s)
        IN  \A i \in DOMAIN cs :
                /\ cs[i].kind \in { "exec", "mock_exec" } => cs[i].what \in BuildCommands
                /\ cs[i].kind = "sign" => s = "make-updates"
                /\ IF Named
                   THEN /\ cs[i].kind \in { "exec", "mock_exec" } => Sandboxed(cs, i)
                        /\ cs[1].kind = "setup_mock"
                   ELSE cs[i].kind \notin { "setup_mock", "mock_exec" }

\* With a sandbox profile named, build ran its three commands and
\* make-updates generated the update and signed it.
C24_Witness ==
    /\ Named /\ config.ccache
    /\ Over("build") /\ Len(CallsOf("build")) = 4
    /\ Over("build-symbols") /\ Over("make-updates")
    /\ \E i \in DOMAIN calls : calls[i].kind = "sign" /\ calls[i].stage = "make-updates"
    /\ \E i \in DOMAIN calls :
          calls[i].kind = "mock_exec" /\ calls[i].what = "build.sh gecko-update-full"

\* ---------------------------------------------------- the update manifest
\* The transfer of upload-updates that leaves out update.xml.
IsDatedTransfer(c) ==
    /\ c.stage = "upload-updates" /\ c.kind = "transfer"
    /\ c.what = "updates_dir --exclude=update.xml"

\* The transfer of upload-updates that takes update.xml along.
IsManifestTransfer(c) ==
    /\ c.stage = "upload-updates" /\ c.kind = "transfer"
    /\ c.what = "updates_dir"

\* C25: upload-updates transfers update.xml only with autopublish enabled
\* and only after a transfer of the dated files, update.xml left out, has
\* ended with success.
C25_ManifestAfterDated ==
    \A i \in DOMAIN calls :
        IsManifestTransfer(calls[i]) =>
            /\ config.autopublish
            /\ \E j \in DOMAIN calls : j < i /\ IsDatedTransfer(calls[j]) /\ calls[j].ok

\* ------------------------------------------------- what a run stages
\* The files a run of prep-upload can put into the upload directory.
Produced ==
    { << config.target, ".zip" >>, << "logs", "/" >>, << "build", ".prop" >> }
    \cup { f \in descriptor.upload_matches : ~IsImg(f) }
    \cup { compressed_name(f) : f \in { g \in descriptor.upload_matches : IsImg(g) } }

\* C26: once prep-upload has returned, every file in the upload directory
\* was staged by this run, and the archive staged there holds only files
\* that this run bundled: nothing an earlier run left in the working
\* directory is among what is uploaded.
C26_OnlyThisRunStaged ==
    Over("prep-upload") /\ ~(status = "fatal" /\ current = "prep-upload") =>
        /\ fs.upload_dir \subseteq Produced
        /\ << config.target, ".zip" >> \in fs.upload_dir =>
              fs.zip \subseteq descriptor.zip_matches

\* ------------------------------------------------------------ symbols
\* C27: build-symbols issues uploadsymbols only in a nightly build with a
\* config_version of at least 1 and right after a buildsymbols command
\* that returned 0; with a config_version below 1 the stage calls nothing
\* and returns; a buildsymbols or uploadsymbols command that did not
\* return 0 is the last call of the run, which the stage aborts with a
\* code that is not 0.
C27_SymbolUploadGated ==
    LET cs == CallsOf("build-symbols")
    IN  /\ \A i \in DOMAIN cs :
              cs[i].what = "build.sh uploadsymbols" =>
                  /\ config.is_nightly
                  /\ descriptor.config_version >= 1
                  /\ i > 1 /\ cs[i - 1].what = "build.sh buildsymbols" /\ cs[i - 1].ok
        /\ descriptor.config_version < 1 /\ Over("build-symbols") =>
              /\ cs = << >>
              /\ ~(status \in { "fatal", "crashed" } /\ current = "build-symbols")
        /\ \A i \in DOMAIN cs :
              ~cs[i].ok =>
                  /\ status = "fatal" /\ current = "build-symbols"
                  /\ exit_code # { } /\ 0 \notin exit_code
                  /\ i = Len(cs) /\ calls[Len(calls)] = cs[i]

\* A nightly build whose symbols were built and whose upload of them failed.
C27_Witness ==
    /\ config.is_nightly /\ descriptor.config_version >= 1
    /\ status = "fatal" /\ current = "build-symbols"
    /\ Len(CallsOf("build-symbols")) = 2
    /\ Last(calls).what = "build.sh uploadsymbols" /\ ~Last(calls).ok

\* ------------------------------------------------------------- clobber
\* The kinds of the calls the clobber stage has made, in order.
ClobberKinds == [ i \in DOMAIN CallsOf("clobber") |-> CallsOf("clobber")[i].kind ]

\* Nothing of an earlier run is in the working directory.
Emptied(dir) ==
    /\ dir.snapshot = { } /\ dir.gonk_mtime = { } /\ dir.tree = { }
    /\ ~dir.userconfig /\ dir.platform_ini = { }
    /\ dir.zip = { } /\ dir.upload_dir = { } /\ dir.updates_dir = { }

\* C28: under automation the clobber stage clobbers the working tree
\* exactly when the build is nightly or force_clobber is set, and it
\* always runs the purge step, once, after the clobber if there is one;
\* outside automation it clobbers the working tree and runs no purge
\* step. The step of the stage empties the working directory when it
\* clobbers and leaves it as it is when it does not.
C28_ClobberDecision ==
    /\ [](Over("clobber") =>
             ClobberKinds =
                 IF ~config.is_automation THEN << "clobber" >>
                 ELSE IF config.is_nightly \/ config.force_clobber
                 THEN << "clobber", "purge" >>
                 ELSE << "purge" >>)
    /\ [][current = "clobber" /\ current' # "clobber" =>
             IF ~config.is_automation \/ config.is_nightly \/ config.force_clobber
             THEN Emptied(fs')
             ELSE fs' = fs]_vars

\* Under automation a build that is not nightly was forced to clobber a
\* working directory an earlier run had built in, and then purged.
C28_Witness ==
    /\ config.is_automation /\ ~config.is_nightly /\ config.force_clobber
    /\ actions = { "clobber" } /\ status = "done"
    /\ ClobberKinds = << "clobber", "purge" >>
    /\ Emptied(fs)

\* ------------------------------------------------------------ termination
\* run() is one loop over all_actions in one thread, and every collaborator
\* call returns: a step of the run that can be taken is taken.
SpecLive == Init /\ [][Next]_vars /\ WF_vars(Next)

\* run() looked at every stage, called every selected one and exited.
Completed ==
    /\ status = "done" /\ current = "none"
    /\ pos = Len(all_actions) + 1
    /\ started = Restrict(CatalogueOrder, actions)
    /\ exit_code = { return_code }

\* The process ended inside the method of the stage started last, by
\* self.fatal or by an exception nobody catches, with a code that is not 0.
AbortedFatally ==
    /\ status \in { "fatal", "crashed" }
    /\ current # "none" /\ started # << >> /\ current = Last(started)
    /\ started = SubSeq(Restrict(CatalogueOrder, actions), 1, Len(started))
    /\ exit_code # { } /\ 0 \notin exit_code

\* C21: every run that starts with no stage executed comes to an end, and
\* a run that ended is in one of two states: every selected stage was
\* called and returned and run() exited, or the method of one stage ended
\* the process; it never ends between stages with selected stages left.
C21_Terminates ==
    /\ <>(status # "running")
    /\ [](status # "running" => Completed \/ AbortedFatally)

\* A run of every stage came to its end after the last stage returned.
C21_Witness ==
    /\ Completed /\ actions = AllStages
    /\ Last(started) = "upload-updates" /\ Len(started) = Len(all_actions)

\* ------------------------------- unpack stages sharing a working directory
\* Two processes started on the same host, in the same working directory.
Instances == { 1, 2 }

RECURSIVE Prefixes(_)
\* The prefixes of s, the empty one first.
Prefixes(s) ==
    IF s = << >> THEN << << >> >>
    ELSE Append(Prefixes(SubSeq(s, 1, Len(s) - 1)), s)

\* The contents open(path, 'w').write(contents) takes the file through:
\* empty, then more and more of contents.
plain_write_steps(contents) == Prefixes(contents)

\* The contents write_to_file takes the fingerprint file through: the new
\* content is written to a temporary file, which is then renamed, so the
\* file goes from what it was to the whole of contents.
write_to_file_steps(contents) == << contents >>

\* Where a process is in unpack_gonk: "mtime" before os.path.getmtime,
\* "read" before the try, "tar" before and "extracting" in run_command,
\* "write" in write_to_file; then "skipped", "unpacked", "fatal" or
\* "crashed"; "killed" when it was interrupted.
Running(p) == inst[p].pc \in { "mtime", "read", "tar", "extracting", "write" }

Idle ==
    UNCHANGED << config, descriptor, actions, pos, current, status, exit_code,
                 return_code, started, calls, gecko_config, loads, props,
                 upload_path, unpacks, run, elsewhere >>

\* mtime = int(os.path.getmtime(...))
GetMtime(p) ==
    /\ inst[p].pc = "mtime"
    /\ inst' = [ inst EXCEPT ![p] =
                   IF fs.snapshot = { } THEN [ @ EXCEPT !.pc = "crashed" ]
                   ELSE [ @ EXCEPT !.pc = "read",
                                   !.mtime = { IntOfRaw(m) : m \in fs.snapshot } ] ]
    /\ UNCHANGED fs
    /\ Idle

\* The try: the fingerprint file is read and compared.
ReadFingerprint(p) ==
    /\ inst[p].pc = "read"
    /\ inst' = [ inst EXCEPT ![p] =
                   [ @ EXCEPT !.seen = Append(@, fs.gonk_mtime),
                              !.pc = IF \E m \in inst[p].mtime : already_unpacked(m, fs.gonk_mtime)
                                     THEN "skipped" ELSE "tar" ] ]
    /\ UNCHANGED fs
    /\ Idle

\* tar starts to write the files of the snapshot over the directory.
TarBegin(p) ==
    /\ inst[p].pc = "tar"
    /\ inst' = [ inst EXCEPT ![p].pc = "extracting" ]
    /\ fs' = [ fs EXCEPT !.tree = { } ]
    /\ Idle

\* tar ends: not 0 is fatal, 0 leaves the snapshot extracted unless another
\* tar is still writing.
TarEnd(p) ==
    /\ inst[p].pc = "extracting"
    /\ \E ok \in BOOLEAN :
          /\ inst' = [ inst EXCEPT ![p].pc = IF ok THEN "write" ELSE "fatal" ]
          /\ fs' = IF ok /\ \A q \in Instances \ { p } : inst[q].pc # "extracting"
                   THEN [ fs EXCEPT !.tree = inst[p].mtime ]
                   ELSE fs
    /\ Idle

\* write_to_file(mtime_file, str(mtime)), one step of it.
WriteStep(p) ==
    /\ inst[p].pc = "write"
    /\ LET steps == write_to_file_steps(fingerprint_of(CHOOSE m \in inst[p].mtime : TRUE))
           k == inst[p].written + 1
       IN  /\ fs' = [ fs EXCEPT !.gonk_mtime = { steps[k] } ]
           /\ inst' = [ inst EXCEPT ![p] =
                          [ @ EXCEPT !.written = k,
                                     !.pc = IF k = Len(steps) THEN "unpacked" ELSE "write" ] ]
    /\ Idle

\* The process is killed where it is.
Interrupt(p) ==
    /\ Running(p)
    /\ inst' = [ inst EXCEPT ![p].pc = "killed" ]
    /\ UNCHANGED fs
    /\ Idle

NextShared ==
    \E p \in Instances :
        \/ GetMtime(p) \/ ReadFingerprint(p) \/ TarBegin(p) \/ TarEnd(p)
        \/ WriteStep(p) \/ Interrupt(p)

\* Fingerprint files the processes can find: none, one an earlier run
\* wrote for this or another snapshot, and one nobody wrote.
FoundFingerprints ==
    { { } } \cup { { StrOfNat(IntOfRaw(m)) } : m \in RawMtimes } \cup { { << "x" >> } }

\* Each process is about to call unpack_gonk; old is the fingerprint file
\* as it was then, seen is what the process read from it.
InitShared ==
    \E s \in { { m } : m \in RawMtimes }, f \in FoundFingerprints :
        /\ Fresh(DefaultConfig, FullDescriptor, { "unpack-gonk" },
                 [ EmptyDir EXCEPT !.snapshot = s, !.gonk_mtime = f, !.tree = prev_mtime(f) ], 1)
        /\ tool \in PlainBuilds /\ NoObject
        /\ inst = [ p \in Instances |->
                      [ pc |-> "mtime", mtime |-> { }, old |-> f, seen |-> << >>,
                        written |-> 0 ] ]

SpecShared == InitShared /\ [][NextShared]_vars

\* C8: whatever the interleaving of the two unpack stages, and wherever
\* one of them is killed, what a process read from the fingerprint file is
\* no file, the file as it was before the two started, or the whole
\* str(mtime) one of them wrote; and where a process skipped the
\* extraction, the snapshot is extracted, whole, in the directory and no
\* tar is writing.
C8_NoPartialFingerprint ==
    \A p \in Instances :
        /\ \A i \in DOMAIN inst[p].seen :
              inst[p].seen[i] \in
                  { { }, inst[p].old }
                  \cup { { StrOfNat(m) } : m \in UNION { inst[q].mtime : q \in Instances } }
        /\ inst[p].pc = "skipped" =>
              /\ inst[p].mtime = fs.tree
              /\ \A q \in Instances : inst[q].pc # "extracting"

\* One process read the fingerprint the other had just written over one
\* nobody could use, and skipped.
C8_Witness ==
    \E p, q \in Instances :
        /\ inst[p].pc = "skipped" /\ inst[p].old = { << "x" >> }
        /\ inst[q].pc = "unpacked"
====
